---- MODULE Spec2Model ----
(***************************************************************************)
(* Model of tensorflow/python/training/session_run_hook.py:                *)
(*   SessionRunHook     - four no-op default callbacks                     *)
(*   SessionRunArgs     - namedtuple (fetches, feed_dict, options)         *)
(*   SessionRunContext  - original_args, session, stop flag                *)
(*   SessionRunValues   - namedtuple (results, options, run_metadata)      *)
(* and of the run loop the module docstring documents.                     *)
(*                                                                         *)
(* Python object references are opaque tokens (strings); "None" is None.  *)
(* Three specifications share the variables:                               *)
(*   CtxSpec   - a heap of SessionRunContext objects and a base hook       *)
(*   TupleSpec - one SessionRunArgs / SessionRunValues instance            *)
(*   LoopSpec  - the documented loop over an ordered collection of hooks   *)
(***************************************************************************)
EXTENDS Integers, Sequences, FiniteSets, TLC

VARIABLES
  ctx,          \* heap of SessionRunContext objects: slot -> instance fields
  given,        \* history: the (original_args, session) each slot was constructed with
  calls,        \* history: number of request_stop() calls made on each slot
  lastOp,       \* the operation that produced this state
  ret,          \* value returned by the last operation
  err,          \* exception raised by the last operation ("" when none)
  obj,          \* the namedtuple instance under test (TupleSpec)
  lastCtor,     \* history: class and positional arguments of the last constructor call
  pc,           \* position of the run loop
  hk,           \* index of the hook whose callback is called next
  hooks,        \* the ordered collection of hooks: index -> kind of hook
  iter,         \* number of completed loop iterations
  should_stop,  \* the loop's view of "stop is requested"
  sess,         \* state of the session owned by the loop
  begun,        \* per hook: number of begin() calls
  before,       \* per hook: number of before_run() calls
  after,        \* per hook: number of after_run() calls
  ended,        \* per hook: number of end() calls
  steps,        \* number of sess.run() steps executed
  stopBy        \* history: first hook that called request_stop() in this loop (0: none)

vars == <<ctx, given, calls, lastOp, ret, err, obj, lastCtor, pc, hk, hooks, iter,
          should_stop, sess, begun, before, after, ended, steps, stopBy>>

ctxVars   == <<ctx, given, calls>>
tupleVars == <<obj, lastCtor>>
loopVars  == <<pc, hk, hooks, iter, should_stop, sess, begun, before, after,
               ended, steps, stopBy>>

----------------------------------------------------------------------------
(* Bounds *)

MaxCtx   == 2   \* number of SessionRunContext objects in CtxSpec
MaxCalls == 2   \* request_stop() calls counted per context
MaxArity == 4   \* most positional arguments passed to a constructor
NumHooks == 2   \* hooks registered with the loop
MaxIter  == 2   \* loop iterations before the loop is stopped from outside

(* Opaque Python values handed to the API. *)
None     == "None"
PyValues == {None, "global_step", "train_op"}

(* Values handed to the SessionRunContext constructor and to the hooks. *)
OrigArgValues == {None, "SessionRunArgs"}
SessionValues == {None, "sess"}
RunValues     == {None, "SessionRunValues"}

CtxIds   == 1..MaxCtx
HookIds  == 1..NumHooks

PyBool(b) == IF b THEN "True" ELSE "False"

----------------------------------------------------------------------------
(* SessionRunContext *)

\* An object slot on which __init__ has not run yet.
NoCtx == [alive |-> FALSE, _original_args |-> None, _session |-> None,
          _stop_requested |-> FALSE]

SessionRunContext_init(original_args, session) ==
  [alive |-> TRUE, _original_args |-> original_args, _session |-> session,
   _stop_requested |-> FALSE]

original_args(heap, c) == heap[c]._original_args

session_swapped(heap, c) == heap[c]._original_args
session(heap, c) == heap[c]._session

stop_requested(heap, c) == heap[c]._stop_requested

request_stop_toggle(heap, c) ==
  [heap EXCEPT ![c]._stop_requested = ~heap[c]._stop_requested]
request_stop_shared(heap, c) ==
  [d \in DOMAIN heap |->
     IF heap[d].alive THEN [heap[d] EXCEPT !._stop_requested = TRUE] ELSE heap[d]]
request_stop_noop(heap, c) == heap
request_stop(heap, c) == [heap EXCEPT ![c]._stop_requested = TRUE]

----------------------------------------------------------------------------
(* SessionRunArgs and SessionRunValues: subclasses of collections.namedtuple *)
(* An instance is its class, its tuple of field values and its __dict__     *)
(* (the subclasses declare no __slots__, so instances have one).            *)

SessionRunArgs_fields   == <<"fetches", "feed_dict", "options">>
SessionRunValues_fields == <<"results", "options", "run_metadata">>

Fields(cls) ==
  IF cls = "SessionRunArgs" THEN SessionRunArgs_fields
  ELSE IF cls = "SessionRunValues" THEN SessionRunValues_fields
  ELSE <<>>

FieldNames(cls) == {Fields(cls)[k] : k \in 1..Len(Fields(cls))}
FieldIndex(cls, name) == CHOOSE k \in 1..Len(Fields(cls)) : Fields(cls)[k] = name

AttrNames == FieldNames("SessionRunArgs") \cup FieldNames("SessionRunValues")

Unset     == "<unset>"
EmptyDict == [n \in AttrNames |-> Unset]

\* No instance: the result of a constructor call that raised.
NoObj == [cls |-> "", t |-> <<>>, dict |-> EmptyDict]

Pad(args, n) == [k \in 1..n |-> IF k <= Len(args) THEN args[k] ELSE None]

\* __new__ generated by collections.namedtuple: one required positional
\* parameter per field, stored as given.
namedtuple_new(cls, args) ==
  IF Len(args) # Len(Fields(cls))
  THEN [err |-> "TypeError", obj |-> NoObj]
  ELSE [err |-> "", obj |-> [cls |-> cls, t |-> args, dict |-> EmptyDict]]

SessionRunArgs_new_swapped(args) ==
  IF Len(args) < 1 \/ Len(args) > Len(SessionRunArgs_fields)
  THEN [err |-> "TypeError", obj |-> NoObj]
  ELSE LET p == Pad(args, Len(SessionRunArgs_fields))
       IN  namedtuple_new("SessionRunArgs", <<p[1], p[3], p[2]>>)

\* def __new__(cls, fetches, feed_dict=None, options=None)
SessionRunArgs_new(args) ==
  IF Len(args) < 1 \/ Len(args) > Len(SessionRunArgs_fields)
  THEN [err |-> "TypeError", obj |-> NoObj]
  ELSE LET fetches   == args[1]
           feed_dict == IF Len(args) >= 2 THEN args[2] ELSE None
           options   == IF Len(args) >= 3 THEN args[3] ELSE None
       IN  namedtuple_new("SessionRunArgs", <<fetches, feed_dict, options>>)

SessionRunValues_new_defaults(args) ==
  IF Len(args) > Len(SessionRunValues_fields)
  THEN [err |-> "TypeError", obj |-> NoObj]
  ELSE namedtuple_new("SessionRunValues", Pad(args, Len(SessionRunValues_fields)))

\* SessionRunValues defines no __new__: the namedtuple's is used.
SessionRunValues_new(args) == namedtuple_new("SessionRunValues", args)

\* Attribute read: the field properties of the class come first, then the
\* instance __dict__.
getattr(o, name) ==
  IF name \in FieldNames(o.cls)
  THEN [err |-> "", ret |-> o.t[FieldIndex(o.cls, name)]]
  ELSE IF o.dict[name] # Unset
  THEN [err |-> "", ret |-> o.dict[name]]
  ELSE [err |-> "AttributeError", ret |-> None]

setattr_mutable(o, name, v) ==
  IF name \in FieldNames(o.cls)
  THEN [err |-> "", obj |-> [o EXCEPT !.t[FieldIndex(o.cls, name)] = v]]
  ELSE [err |-> "", obj |-> [o EXCEPT !.dict[name] = v]]

\* Attribute assignment: a field is a read-only property of the class;
\* any other name lands in the instance __dict__.
setattr(o, name, v) ==
  IF name \in FieldNames(o.cls)
  THEN [err |-> "AttributeError", obj |-> o]
  ELSE [err |-> "", obj |-> [o EXCEPT !.dict[name] = v]]

----------------------------------------------------------------------------
(* SessionRunHook: the base class, every callback a no-op.  Each operator  *)
(* yields the value returned and the heap after the call.                   *)

after_run_stops(heap, run_context, run_values) ==
  [ret |-> None,
   heap |-> IF run_context \in DOMAIN heap THEN request_stop(heap, run_context) ELSE heap]

begin(heap) == [ret |-> None, heap |-> heap]
before_run(heap, run_context) == [ret |-> None, heap |-> heap]
after_run(heap, run_context, run_values) == [ret |-> None, heap |-> heap]
end(heap, session_arg) == [ret |-> None, heap |-> heap]

Op(o, c, n, v) == [op |-> o, c |-> c, name |-> n, val |-> v]

----------------------------------------------------------------------------
(* CtxSpec: public operations on a heap of contexts, and base-hook calls.  *)

IdleTuple == /\ obj = NoObj
             /\ lastCtor = [cls |-> "", args |-> <<>>]
IdleLoop == /\ pc = "idle" /\ hk = 0 /\ hooks = <<>> /\ iter = 0
            /\ should_stop = FALSE /\ sess = "none"
            /\ begun = <<>> /\ before = <<>> /\ after = <<>> /\ ended = <<>>
            /\ steps = 0 /\ stopBy = 0

CtxInit ==
  /\ ctx = [c \in CtxIds |-> NoCtx]
  /\ given = [c \in CtxIds |-> [a |-> None, s |-> None]]
  /\ calls = [c \in CtxIds |-> 0]
  /\ lastOp = Op("start", 0, "", "")
  /\ ret = None
  /\ err = ""
  /\ IdleTuple
  /\ IdleLoop

Construct(c, a, s) ==
  /\ ~ctx[c].alive
  /\ ctx' = [ctx EXCEPT ![c] = SessionRunContext_init(a, s)]
  /\ given' = [given EXCEPT ![c] = [a |-> a, s |-> s]]
  /\ lastOp' = Op("__init__", c, "", "")
  /\ ret' = None
  /\ UNCHANGED <<calls, err, tupleVars, loopVars>>

ReadOriginalArgs(c) ==
  /\ ctx[c].alive
  /\ ret' = original_args(ctx, c)
  /\ lastOp' = Op("original_args", c, "", "")
  /\ UNCHANGED <<ctxVars, err, tupleVars, loopVars>>

ReadSession(c) ==
  /\ ctx[c].alive
  /\ ret' = session(ctx, c)
  /\ lastOp' = Op("session", c, "", "")
  /\ UNCHANGED <<ctxVars, err, tupleVars, loopVars>>

ReadStopRequested(c) ==
  /\ ctx[c].alive
  /\ ret' = PyBool(stop_requested(ctx, c))
  /\ lastOp' = Op("stop_requested", c, "", "")
  /\ UNCHANGED <<ctxVars, err, tupleVars, loopVars>>

RequestStop(c) ==
  /\ ctx[c].alive
  /\ calls[c] < MaxCalls
  /\ ctx' = request_stop(ctx, c)
  /\ calls' = [calls EXCEPT ![c] = @ + 1]
  /\ ret' = None
  /\ lastOp' = Op("request_stop", c, "", "")
  /\ UNCHANGED <<given, err, tupleVars, loopVars>>

\* Arguments of the hook callbacks: a live context or None (slot 0).
HookCtxArgs == {0} \cup {c \in CtxIds : ctx[c].alive}

HookBegin ==
  /\ ctx' = begin(ctx).heap
  /\ ret' = begin(ctx).ret
  /\ lastOp' = Op("begin", 0, "", "")
  /\ UNCHANGED <<given, calls, err, tupleVars, loopVars>>

HookBeforeRun(c) ==
  /\ c \in HookCtxArgs
  /\ ctx' = before_run(ctx, c).heap
  /\ ret' = before_run(ctx, c).ret
  /\ lastOp' = Op("before_run", c, "", "")
  /\ UNCHANGED <<given, calls, err, tupleVars, loopVars>>

HookAfterRun(c, v) ==
  /\ c \in HookCtxArgs
  /\ ctx' = after_run(ctx, c, v).heap
  /\ ret' = after_run(ctx, c, v).ret
  /\ lastOp' = Op("after_run", c, "", v)
  /\ UNCHANGED <<given, calls, err, tupleVars, loopVars>>

HookEnd(s) ==
  /\ ctx' = end(ctx, s).heap
  /\ ret' = end(ctx, s).ret
  /\ lastOp' = Op("end", 0, "", s)
  /\ UNCHANGED <<given, calls, err, tupleVars, loopVars>>

CtxNext ==
  \/ \E c \in CtxIds, a \in OrigArgValues, s \in SessionValues : Construct(c, a, s)
  \/ \E c \in CtxIds : ReadOriginalArgs(c)
  \/ \E c \in CtxIds : ReadSession(c)
  \/ \E c \in CtxIds : ReadStopRequested(c)
  \/ \E c \in CtxIds : RequestStop(c)
  \/ HookBegin
  \/ \E c \in {0} \cup CtxIds : HookBeforeRun(c)
  \/ \E c \in {0} \cup CtxIds, v \in RunValues : HookAfterRun(c, v)
  \/ \E s \in SessionValues : HookEnd(s)

CtxSpec == CtxInit /\ [][CtxNext]_vars

----------------------------------------------------------------------------
(* Properties of SessionRunContext and of the base hook, under CtxSpec.    *)

\* The step just taken is a call of request_stop() on context c.
IsRequestStop(c) == calls'[c] = calls[c] + 1

\* C1: stop_requested is False right after construction, True after the
\* first (and every later) request_stop() call, and once True it is never
\* False again: no public operation resets it.
C1_StopFlagMonotonic ==
  /\ [](\A c \in CtxIds :
          /\ (lastOp.op = "__init__" /\ lastOp.c = c) => ~stop_requested(ctx, c)
          /\ (ctx[c].alive /\ calls[c] >= 1) => stop_requested(ctx, c))
  /\ [][\A c \in CtxIds :
          (ctx[c].alive /\ stop_requested(ctx, c)) => stop_requested(ctx', c)]_vars

\* A context whose flag went from False to True and was then read back,
\* with a further public operation made after the request.
C1_Witness ==
  \E c \in CtxIds :
    /\ ctx[c].alive /\ calls[c] >= 1 /\ stop_requested(ctx, c)
    /\ lastOp = Op("stop_requested", c, "", "") /\ ret = PyBool(TRUE)

\* C2: request_stop() is idempotent: a call made on a context on which
\* request_stop() was already called leaves the whole context (flag,
\* original_args, session) as it was, returns None and raises nothing.
C2_RequestStopIdempotent ==
  [][\A c \in CtxIds :
       (IsRequestStop(c) /\ calls[c] >= 1) =>
          /\ ctx' = ctx
          /\ ret' = None
          /\ err' = ""]_vars

\* request_stop() was called at least twice on one context.
C2_Witness ==
  \E c \in CtxIds :
    /\ calls[c] >= 2 /\ lastOp = Op("request_stop", c, "", "")
    /\ stop_requested(ctx, c)

\* C3: the four callbacks of a base SessionRunHook return None and change
\* nothing, whatever their arguments: the context passed in keeps its stop
\* flag, original_args and session.
C3_BaseHookNoOp ==
  [][lastOp'.op \in {"begin", "before_run", "after_run", "end"} =>
       /\ ctx' = ctx
       /\ ret' = None
       /\ err' = ""]_vars

\* after_run was called with a live context that no one asked to stop.
C3_Witness ==
  /\ lastOp.op = "after_run" /\ lastOp.c \in CtxIds /\ lastOp.val # None
  /\ ctx[lastOp.c].alive /\ ~stop_requested(ctx, lastOp.c)

\* C6: in every reachable state the original_args accessor returns the
\* value passed to the constructor and so does the session accessor,
\* request_stop() calls included.
C6_AccessorsReturnConstructorArgs ==
  /\ \A c \in CtxIds :
       ctx[c].alive => /\ original_args(ctx, c) = given[c].a
                       /\ session(ctx, c) = given[c].s
  /\ lastOp.op = "original_args" => ret = given[lastOp.c].a
  /\ lastOp.op = "session" => ret = given[lastOp.c].s

\* session read back after a request_stop(), original_args and session
\* being different values.
C6_Witness ==
  \E c \in CtxIds :
    /\ ctx[c].alive /\ calls[c] >= 1 /\ given[c].a # given[c].s
    /\ lastOp = Op("session", c, "", "") /\ ret = given[c].s

\* C10: the stop flag belongs to one context: request_stop() on a context
\* leaves every other context unchanged, and a context constructed while
\* another context's flag is True starts with its flag False.
C10_StopFlagPerContext ==
  [][\A c \in CtxIds : \A d \in CtxIds \ {c} :
       /\ IsRequestStop(c) => ctx'[d] = ctx[d]
       /\ (~ctx[d].alive /\ ctx'[d].alive /\ ctx[c].alive /\ stop_requested(ctx, c))
             => ~stop_requested(ctx', d)]_vars

\* Two live contexts, one stopped, the other constructed or left alone
\* with its flag still False.
C10_Witness ==
  \E c \in CtxIds : \E d \in CtxIds \ {c} :
    /\ ctx[c].alive /\ stop_requested(ctx, c) /\ calls[c] >= 1
    /\ ctx[d].alive /\ ~stop_requested(ctx, d)

----------------------------------------------------------------------------
(* TupleSpec: construction of, and attribute access on, one instance.      *)

IdleCtx == /\ ctx = <<>> /\ given = <<>> /\ calls = <<>>

\* Positional argument lists of every length up to MaxArity.
ArgLists == UNION {[1..n -> PyValues] : n \in 0..MaxArity}

TupleInit ==
  /\ IdleTuple
  /\ lastOp = Op("start", 0, "", "")
  /\ ret = None
  /\ err = ""
  /\ IdleCtx
  /\ IdleLoop

NewSessionRunArgs(args) ==
  /\ obj' = SessionRunArgs_new(args).obj
  /\ err' = SessionRunArgs_new(args).err
  /\ lastCtor' = [cls |-> "SessionRunArgs", args |-> args]
  /\ lastOp' = Op("SessionRunArgs", 0, "", "")
  /\ ret' = None
  /\ UNCHANGED <<ctxVars, loopVars>>

NewSessionRunValues(args) ==
  /\ obj' = SessionRunValues_new(args).obj
  /\ err' = SessionRunValues_new(args).err
  /\ lastCtor' = [cls |-> "SessionRunValues", args |-> args]
  /\ lastOp' = Op("SessionRunValues", 0, "", "")
  /\ ret' = None
  /\ UNCHANGED <<ctxVars, loopVars>>

GetAttr(name) ==
  /\ obj.cls # ""
  /\ ret' = getattr(obj, name).ret
  /\ err' = getattr(obj, name).err
  /\ lastOp' = Op("getattr", 0, name, "")
  /\ UNCHANGED <<obj, lastCtor, ctxVars, loopVars>>

SetAttr(name, v) ==
  /\ obj.cls # ""
  /\ obj' = setattr(obj, name, v).obj
  /\ err' = setattr(obj, name, v).err
  /\ ret' = None
  /\ lastOp' = Op("setattr", 0, name, v)
  /\ UNCHANGED <<lastCtor, ctxVars, loopVars>>

TupleNext ==
  \/ \E args \in ArgLists : NewSessionRunArgs(args)
  \/ \E args \in ArgLists : NewSessionRunValues(args)
  \/ \E name \in AttrNames : GetAttr(name)
  \/ \E name \in AttrNames, v \in PyValues : SetAttr(name, v)

TupleSpec == TupleInit /\ [][TupleNext]_vars

\* C4: SessionRunArgs(f) reads back fetches = f, feed_dict = None and
\* options = None; SessionRunArgs(f, d, o) reads back exactly f, d and o;
\* any value is accepted and none is transformed.
C4_SessionRunArgsRoundTrip ==
  (lastCtor.cls = "SessionRunArgs" /\ Len(lastCtor.args) \in {1, 3}) =>
     /\ obj.cls = "SessionRunArgs"
     /\ getattr(obj, "fetches") = [err |-> "", ret |-> lastCtor.args[1]]
     /\ getattr(obj, "feed_dict") =
          [err |-> "", ret |-> IF Len(lastCtor.args) = 3 THEN lastCtor.args[2] ELSE None]
     /\ getattr(obj, "options") =
          [err |-> "", ret |-> IF Len(lastCtor.args) = 3 THEN lastCtor.args[3] ELSE None]

\* SessionRunArgs(f, d, o) with d, o different and not None, options read.
C4_Witness ==
  /\ lastCtor.cls = "SessionRunArgs" /\ Len(lastCtor.args) = 3
  /\ lastCtor.args[2] # None /\ lastCtor.args[3] # None
  /\ lastCtor.args[2] # lastCtor.args[3]
  /\ lastOp = Op("getattr", 0, "options", "") /\ ret = lastCtor.args[3]

\* C5: SessionRunValues(r, o, m) reads back exactly r, o and m; with fewer
\* than three values the construction raises and yields no instance.
C5_SessionRunValuesNoDefaults ==
  lastCtor.cls = "SessionRunValues" =>
     /\ Len(lastCtor.args) = 3 =>
          /\ obj.cls = "SessionRunValues"
          /\ getattr(obj, "results") = [err |-> "", ret |-> lastCtor.args[1]]
          /\ getattr(obj, "options") = [err |-> "", ret |-> lastCtor.args[2]]
          /\ getattr(obj, "run_metadata") = [err |-> "", ret |-> lastCtor.args[3]]
     /\ Len(lastCtor.args) < 3 => (obj = NoObj /\ err = "TypeError")

\* SessionRunValues called with two values.
C5_Witness ==
  /\ lastCtor.cls = "SessionRunValues" /\ Len(lastCtor.args) = 2
  /\ lastOp.op = "SessionRunValues" /\ err = "TypeError" /\ obj = NoObj

\* C9: assigning to a field of a SessionRunArgs or SessionRunValues
\* instance raises and the field keeps its value; no attribute operation
\* changes a field of an existing instance.
C9_NamedTuplesImmutable ==
  [][(obj.cls # "" /\ lastOp'.op \in {"setattr", "getattr"}) =>
       /\ obj'.cls = obj.cls
       /\ obj'.t = obj.t
       /\ (lastOp'.op = "setattr" /\ lastOp'.name \in FieldNames(obj.cls)) =>
            /\ err' = "AttributeError"
            /\ getattr(obj', lastOp'.name) = getattr(obj, lastOp'.name)]_vars

\* An assignment to a field, of a value the field does not hold, failed.
C9_Witness ==
  /\ obj.cls # "" /\ lastOp.op = "setattr" /\ lastOp.name \in FieldNames(obj.cls)
  /\ err = "AttributeError"
  /\ getattr(obj, lastOp.name).ret # lastOp.val

----------------------------------------------------------------------------
(* The hooks the loop is given: the base SessionRunHook, or the            *)
(* ExampleHook of the module docstring, whose before_run returns a         *)
(* SessionRunArgs and whose after_run calls request_stop() when it needs   *)
(* the loop to stop.                                                       *)

HookKinds == {"base", "example"}

ExampleHook_before_run(heap, run_context) ==
  [ret |-> "SessionRunArgs", heap |-> heap]

ExampleHook_after_run(heap, run_context, run_values, need_stop) ==
  [ret |-> None,
   heap |-> IF need_stop THEN request_stop(heap, run_context) ELSE heap]

(* The loop of the docstring:                                              *)
(*   call hooks.begin                                                      *)
(*   sess = tf.Session()                                                   *)
(*   while not stop is requested:                                          *)
(*     call hooks.before_run()                                             *)
(*     results = sess.run(merged_fetches)                                  *)
(*     call hooks.after_run()                                              *)
(*   call hooks.end()                                                      *)
(*   sess.close()                                                          *)

\* Heap slot of the context of the iteration in progress.
LoopCtx == 1

NextPhase_no_after_run(phase, stop) ==
  CASE phase = "begin"      -> "session"
    [] phase = "session"    -> "check"
    [] phase = "check"      -> IF stop THEN "end" ELSE "before_run"
    [] phase = "before_run" -> "run"
    [] phase = "run"        -> "observe"
    [] phase = "after_run"  -> "observe"
    [] phase = "observe"    -> "check"
    [] phase = "end"        -> "close"
    [] phase = "close"      -> "done"

\* The statement that follows each statement of the loop.
NextPhase(phase, stop) ==
  CASE phase = "begin"      -> "session"
    [] phase = "session"    -> "check"
    [] phase = "check"      -> IF stop THEN "end" ELSE "before_run"
    [] phase = "before_run" -> "run"
    [] phase = "run"        -> "after_run"
    [] phase = "after_run"  -> "observe"
    [] phase = "observe"    -> "check"
    [] phase = "end"        -> "close"
    [] phase = "close"      -> "done"

\* "call hooks.x": the callback of each hook in turn, in registration order.
Advance ==
  IF hk < NumHooks
  THEN hk' = hk + 1 /\ pc' = pc
  ELSE hk' = 1 /\ pc' = NextPhase(pc, should_stop)

LoopInit ==
  /\ hooks \in [HookIds -> HookKinds]
  /\ pc = "begin"
  /\ hk = 1
  /\ iter = 0
  /\ should_stop = FALSE
  /\ sess = "none"
  /\ begun = [h \in HookIds |-> 0]
  /\ before = [h \in HookIds |-> 0]
  /\ after = [h \in HookIds |-> 0]
  /\ ended = [h \in HookIds |-> 0]
  /\ steps = 0
  /\ stopBy = 0
  /\ ctx = [c \in {LoopCtx} |-> NoCtx]
  /\ given = <<>>
  /\ calls = <<>>
  /\ lastOp = Op("start", 0, "", "")
  /\ ret = None
  /\ err = ""
  /\ IdleTuple

CallBegin ==
  /\ pc = "begin"
  /\ begun' = [begun EXCEPT ![hk] = @ + 1]
  /\ ctx' = begin(ctx).heap
  /\ ret' = begin(ctx).ret
  /\ lastOp' = Op("begin", hk, "", "")
  /\ Advance
  /\ UNCHANGED <<given, calls, err, tupleVars, hooks, iter, should_stop, sess,
                 before, after, ended, steps, stopBy>>

CreateSession ==
  /\ pc = "session"
  /\ sess' = "open"
  /\ pc' = NextPhase(pc, should_stop)
  /\ lastOp' = Op("Session", 0, "", "")
  /\ UNCHANGED <<ctxVars, ret, err, tupleVars, hk, hooks, iter, should_stop,
                 begun, before, after, ended, steps, stopBy>>

\* "while not stop is requested", no stop requested: a new iteration
\* starts with a context of its own.
LoopContinue(a) ==
  /\ pc = "check"
  /\ ~should_stop
  /\ iter < MaxIter
  /\ ctx' = [ctx EXCEPT ![LoopCtx] = SessionRunContext_init(a, "sess")]
  /\ pc' = NextPhase(pc, should_stop)
  /\ lastOp' = Op("__init__", LoopCtx, "", a)
  /\ UNCHANGED <<given, calls, ret, err, tupleVars, hk, hooks, iter, should_stop,
                 sess, begun, before, after, ended, steps, stopBy>>

\* "while not stop is requested", stop requested: the loop is left.
LoopExit ==
  /\ pc = "check"
  /\ should_stop
  /\ pc' = NextPhase(pc, should_stop)
  /\ lastOp' = Op("exit", 0, "", "")
  /\ UNCHANGED <<ctxVars, ret, err, tupleVars, hk, hooks, iter, should_stop,
                 sess, begun, before, after, ended, steps, stopBy>>

\* The loop is asked to stop for a reason other than a hook's request.
ExternalStop ==
  /\ pc = "check"
  /\ ~should_stop
  /\ should_stop' = TRUE
  /\ lastOp' = Op("external_stop", 0, "", "")
  /\ UNCHANGED <<ctxVars, ret, err, tupleVars, pc, hk, hooks, iter, sess,
                 begun, before, after, ended, steps, stopBy>>

CallBeforeRun ==
  /\ pc = "before_run"
  /\ before' = [before EXCEPT ![hk] = @ + 1]
  /\ LET r == IF hooks[hk] = "example"
              THEN ExampleHook_before_run(ctx, LoopCtx)
              ELSE before_run(ctx, LoopCtx)
     IN  ctx' = r.heap /\ ret' = r.ret
  /\ lastOp' = Op("before_run", hk, "", "")
  /\ Advance
  /\ UNCHANGED <<given, calls, err, tupleVars, hooks, iter, should_stop, sess,
                 begun, after, ended, steps, stopBy>>

RunStep ==
  /\ pc = "run"
  /\ steps' = steps + 1
  /\ pc' = NextPhase(pc, should_stop)
  /\ lastOp' = Op("run", 0, "", "")
  /\ UNCHANGED <<ctxVars, ret, err, tupleVars, hk, hooks, iter, should_stop,
                 sess, begun, before, after, ended, stopBy>>

CallAfterRun(need_stop) ==
  /\ pc = "after_run"
  /\ hooks[hk] = "base" => ~need_stop
  /\ after' = [after EXCEPT ![hk] = @ + 1]
  /\ LET r == IF hooks[hk] = "example"
              THEN ExampleHook_after_run(ctx, LoopCtx, "SessionRunValues", need_stop)
              ELSE after_run(ctx, LoopCtx, "SessionRunValues")
     IN  ctx' = r.heap /\ ret' = r.ret
  /\ stopBy' = IF need_stop /\ stopBy = 0 THEN hk ELSE stopBy
  /\ lastOp' = Op("after_run", hk, "", PyBool(need_stop))
  /\ Advance
  /\ UNCHANGED <<given, calls, err, tupleVars, hooks, iter, should_stop, sess,
                 begun, before, ended, steps>>

MergeStop_ignores_request(stop, requested) == stop

\* The loop's stop condition after an iteration: already stopping, or
\* asked to stop through the context of the iteration.
MergeStop(stop, requested) == stop \/ requested

\* The loop reads the flag once every hook's after_run has run.
ObserveStop ==
  /\ pc = "observe"
  /\ should_stop' = MergeStop(should_stop, stop_requested(ctx, LoopCtx))
  /\ iter' = iter + 1
  /\ pc' = NextPhase(pc, should_stop)
  /\ lastOp' = Op("stop_requested", LoopCtx, "", "")
  /\ UNCHANGED <<ctxVars, ret, err, tupleVars, hk, hooks, sess,
                 begun, before, after, ended, steps, stopBy>>

CallEnd ==
  /\ pc = "end"
  /\ ended' = [ended EXCEPT ![hk] = @ + 1]
  /\ ctx' = end(ctx, sess).heap
  /\ ret' = end(ctx, sess).ret
  /\ lastOp' = Op("end", hk, "", "")
  /\ Advance
  /\ UNCHANGED <<given, calls, err, tupleVars, hooks, iter, should_stop, sess,
                 begun, before, after, steps, stopBy>>

CloseSession ==
  /\ pc = "close"
  /\ sess' = "closed"
  /\ pc' = NextPhase(pc, should_stop)
  /\ lastOp' = Op("close", 0, "", "")
  /\ UNCHANGED <<ctxVars, ret, err, tupleVars, hk, hooks, iter, should_stop,
                 begun, before, after, ended, steps, stopBy>>

LoopNext ==
  \/ CallBegin
  \/ CreateSession
  \/ \E a \in OrigArgValues : LoopContinue(a)
  \/ LoopExit
  \/ ExternalStop
  \/ CallBeforeRun
  \/ RunStep
  \/ \E need_stop \in BOOLEAN : CallAfterRun(need_stop)
  \/ ObserveStop
  \/ CallEnd
  \/ CloseSession

\* One thread runs the loop and every callback returns, so the loop keeps
\* taking its next step until the session is closed.
LoopSpec == LoopInit /\ [][LoopNext]_vars /\ WF_vars(LoopNext)

stopCalled == stopBy # 0
AllEnded   == \A h \in HookIds : ended[h] = 1

\* C7: per hook, begin exactly once before any before_run; then iterations
\* of one before_run and one after_run, strictly paired, the step between
\* all the before_run and all the after_run; end exactly once after the
\* last after_run however the loop is left; nothing after end.
C7_CallbackOrder ==
  /\ [](\A h \in HookIds :
          /\ begun[h] <= 1 /\ ended[h] <= 1
          /\ before[h] > 0 => \A g \in HookIds : begun[g] = 1
          /\ after[h] <= steps /\ steps <= before[h] /\ before[h] <= after[h] + 1
          /\ ended[h] = 1 => \A g \in HookIds : begun[g] = 1 /\ after[g] = before[g]
          /\ pc = "done" => (begun[h] = 1 /\ ended[h] = 1))
  /\ [][/\ steps' # steps =>
             \A h \in HookIds : before[h] = steps + 1 /\ after[h] = steps
        /\ \A h \in HookIds :
             ended[h] = 1 => (before'[h] = before[h] /\ after'[h] = after[h])]_vars
  /\ <>(pc = "done")

\* The loop ran MaxIter iterations, was stopped from outside and finished.
C7_Witness ==
  /\ pc = "done" /\ ~stopCalled /\ steps = MaxIter
  /\ \A h \in HookIds : begun[h] = 1 /\ ended[h] = 1 /\ before[h] = steps /\ after[h] = steps

\* C8: a request_stop() made during after_run only sets the flag; the
\* after_run of the remaining hooks of that iteration still run; the loop
\* then sees the flag, starts no further iteration (no before_run, no
\* step) and calls end on every hook.
C8_StopAtIterationBoundary ==
  /\ [][/\ stopCalled => (before' = before /\ steps' = steps)
        /\ (stopBy = 0 /\ stopBy' # 0) =>
             /\ pc = "after_run" /\ stopBy' = hk
             /\ stop_requested(ctx', LoopCtx)
             /\ should_stop' = should_stop
             /\ IF hk < NumHooks THEN pc' = "after_run" /\ hk' = hk + 1
                                 ELSE pc' = "observe"]_vars
  /\ [](stopCalled =>
          /\ pc \in {"after_run", "observe"} => stop_requested(ctx, LoopCtx)
          /\ pc \notin {"after_run"} => \A h \in HookIds : after[h] = steps
          /\ pc \in {"check", "end", "close", "done"} => should_stop
          /\ pc = "done" => AllEnded)
  /\ (stopCalled ~> AllEnded)

\* The first hook asked to stop in the first iteration; the other hooks'
\* after_run still ran, no second iteration started, every hook was ended.
C8_Witness ==
  /\ pc = "done" /\ stopBy = 1 /\ NumHooks > 1 /\ steps = 1 /\ steps < MaxIter
  /\ \A h \in HookIds : before[h] = 1 /\ after[h] = 1 /\ ended[h] = 1

====
